---- MODULE Spec2Model ----
(***************************************************************************)
(* Model of the weekly route optimisation of src/api/main.py:              *)
(* optimize_routes -> create_data_model -> solve_vrp (once per day) ->     *)
(* weekly aggregation.                                                     *)
(*                                                                         *)
(* Conventions.                                                            *)
(*  - Python lists are sequences; a Python index k is kept as the number k *)
(*    (0-based) and read from a sequence s as s[k+1].                      *)
(*  - None and the empty string (both falsy) are the string NoneVal.       *)
(*  - preferred_date None and [] (both falsy) are the empty sequence.      *)
(*  - A date string is the triple <<year, month, day>> of the fields of    *)
(*    its ISO text (the time part plays no role: only .date() is used);    *)
(*    text that is no ISO date is a triple that names no calendar day.     *)
(*  - GOOGLE_MAPS_API_KEY is unset: compute_time_matrix takes its dummy    *)
(*    branch.                                                              *)
(*  - The routing solver is a library outside the repository.  Its answer  *)
(*    for a day is either no solution or an assignment that satisfies the  *)
(*    constraints solve_vrp passed to it; which one is not determined by   *)
(*    the code.  The variable solver holds the search's arbitrary choices  *)
(*    (visiting order, spreading over vehicles, nodes left out, waiting),  *)
(*    and each day's solve additionally chooses whether the search         *)
(*    succeeds.                                                            *)
(***************************************************************************)
EXTENDS Integers, Sequences, FiniteSets, TLC

VARIABLES
    request,        \* the OptimizationRequest (lines 87-90)
    solver,         \* the search choices of routing.SolveWithParameters (line 329)
    pc,             \* position in optimize_routes: "start", "solve", "done"
    data_model,     \* optimize_routes.data_model (line 496)
    day,            \* the loop variable of `for day in range(5)` (line 502)
    day_results,    \* what solve_vrp built and returned on each day so far (line 503)
    all_routes,     \* optimize_routes.all_routes (line 499)
    all_unassigned, \* optimize_routes.all_unassigned (line 500)
    response        \* the HTTP response: status, routes, unassigned

vars == <<request, solver, pc, data_model, day, day_results,
          all_routes, all_unassigned, response>>

(***************************************************************************)
(* Bounds of the model                                                     *)
(***************************************************************************)
MaxJobs == 2

MaxDates == 2

MaxVehicles == 2

MaxDrivers == 2

(***************************************************************************)
(* Program constants                                                       *)
(***************************************************************************)
NumDays == 5

SlackMax == 60

WindowMinutes == 180

DefaultHours == 9

MinutesPerHour == 60

DummyFloor == 30

DummyStep == 20

HTTP_200_OK == 200

HTTP_400_BAD_REQUEST == 400

HTTP_500_INTERNAL_SERVER_ERROR == 500

DEPOT_LOCATION == "Birmingham, UK"

NoneVal == "None"

(***************************************************************************)
(* Helpers                                                                 *)
(***************************************************************************)
Range(s) == {s[i] : i \in 1..Len(s)}

MaxOf(a, b) == IF a >= b THEN a ELSE b

MinOf(a, b) == IF a <= b THEN a ELSE b

Abs(a) == IF a >= 0 THEN a ELSE -a

SetMax(S) == CHOOSE x \in S : \A y \in S : y <= x

SetMin(S) == CHOOSE x \in S : \A y \in S : x <= y

RECURSIVE SortedSeq(_)
SortedSeq(S) == IF S = {} THEN <<>> ELSE <<SetMin(S)>> \o SortedSeq(S \ {SetMin(S)})

Reverse(s) == [k \in 1..Len(s) |-> s[Len(s) + 1 - k]]

RECURSIVE Flatten(_)
Flatten(ss) == IF ss = <<>> THEN <<>> ELSE Head(ss) \o Flatten(Tail(ss))

RECURSIVE SumSeq(_)
SumSeq(s) == IF s = <<>> THEN 0 ELSE Head(s) + SumSeq(Tail(s))

NoDuplicates(s) == \A i, j \in 1..Len(s) : s[i] = s[j] => i = j

Permutations_of(S) ==
    {s \in [1..Cardinality(S) -> S] : \A x \in S : \E k \in 1..Cardinality(S) : s[k] = x}

(***************************************************************************)
(* Calendar: datetime.fromisoformat(...).date() and date subtraction       *)
(***************************************************************************)
IsLeap(y) == (y % 4 = 0) /\ ((y % 100 # 0) \/ (y % 400 = 0))

DaysInMonth(y, m) ==
    IF m = 2 THEN (IF IsLeap(y) THEN 29 ELSE 28)
    ELSE IF m \in {4, 6, 9, 11} THEN 30 ELSE 31

DaysBeforeYear(y) ==
    LET p == y - 1 IN p * 365 + (p \div 4) - (p \div 100) + (p \div 400)

RECURSIVE DaysBeforeMonth(_, _)
DaysBeforeMonth(y, m) ==
    IF m = 1 THEN 0 ELSE DaysBeforeMonth(y, m - 1) + DaysInMonth(y, m - 1)

ToOrdinal(date) ==
    DaysBeforeYear(date[1]) + DaysBeforeMonth(date[1], date[2]) + date[3]

\* datetime.fromisoformat succeeds (otherwise it raises ValueError)
ParsesAsDate(date_str) ==
    /\ date_str[1] \in 1..9999
    /\ date_str[2] \in 1..12
    /\ date_str[3] \in 1..DaysInMonth(date_str[1], date_str[2])

\* datetime.now().date()
Today == <<2024, 2, 27>>

\* (job_date - today).days
DayDiff(date_str) == ToOrdinal(date_str) - ToOrdinal(Today)

(***************************************************************************)
(* compute_time_matrix, dummy branch                                       *)
(***************************************************************************)
compute_time_matrix(locations) ==
    LET n == Len(locations) IN
    [i \in 0..(n - 1) |->
        [j \in 0..(n - 1) |-> MaxOf(DummyFloor, Abs(i - j) * DummyStep)]]

(***************************************************************************)
(* create_data_model                                                       *)
(***************************************************************************)
AllLocations(jobs) == <<DEPOT_LOCATION>> \o [k \in 1..Len(jobs) |-> jobs[k].location]

RECURSIVE UniqueLocations(_, _)
UniqueLocations(all_locations, unique_locations) ==
    IF all_locations = <<>> THEN unique_locations
    ELSE UniqueLocations(Tail(all_locations),
            IF Head(all_locations) \in Range(unique_locations)
            THEN unique_locations
            ELSE Append(unique_locations, Head(all_locations)))

\* location_indices[location]
LocationIndex(unique_locations, location) ==
    (CHOOSE k \in 1..Len(unique_locations) : unique_locations[k] = location) - 1

JobsWithIndices(jobs, unique_locations) ==
    [k \in 1..Len(jobs) |->
        [id             |-> jobs[k].id,
         location_idx   |-> LocationIndex(unique_locations, jobs[k].location),
         type           |-> jobs[k].type,
         related_job_id |-> jobs[k].related_job_id,
         preferred_date |-> jobs[k].preferred_date]]

\* job_id_to_idx: a dict comprehension, so the last entry with an id wins
HasJobId(jobs_with_indices, id) ==
    \E k \in 1..Len(jobs_with_indices) : jobs_with_indices[k].id = id

JobIdToIdx(jobs_with_indices, id) ==
    SetMax({k \in 1..Len(jobs_with_indices) : jobs_with_indices[k].id = id}) - 1

IsPairSource(jobs_with_indices, i) ==
    LET job == jobs_with_indices[i + 1] IN
    /\ job.type = "collection"
    /\ job.related_job_id # NoneVal
    /\ HasJobId(jobs_with_indices, job.related_job_id)

JobPairs(jobs_with_indices) ==
    LET sources == SelectSeq([k \in 1..Len(jobs_with_indices) |-> k - 1],
                             LAMBDA i : IsPairSource(jobs_with_indices, i))
    IN [k \in 1..Len(sources) |->
          <<sources[k],
            JobIdToIdx(jobs_with_indices,
                       jobs_with_indices[sources[k] + 1].related_job_id)>>]

\* DateEntry with `except: pass`: an unparsable date string adds nothing
DateEntryIgnoreUnparsable(date_str, i, d) ==
    IF ParsesAsDate(date_str)
    THEN (IF 0 <= DayDiff(date_str) /\ DayDiff(date_str) < NumDays /\ DayDiff(date_str) = d
          THEN <<i>> ELSE <<>>)
    ELSE <<>>

\* what one preferred date string of job i appends to jobs_by_day[d]
DateEntry(date_str, i, d) ==
    IF ParsesAsDate(date_str)
    THEN (IF 0 <= DayDiff(date_str) /\ DayDiff(date_str) < NumDays /\ DayDiff(date_str) = d
          THEN <<i>> ELSE <<>>)
    ELSE <<i>>

\* what job i appends to jobs_by_day[d]
JobEntries(job, i, d) ==
    IF job.preferred_date # <<>>
    THEN Flatten([k \in 1..Len(job.preferred_date) |->
                     DateEntry(job.preferred_date[k], i, d)])
    ELSE <<i>>

JobsByDay(jobs_with_indices) ==
    [d \in 0..(NumDays - 1) |->
        Flatten([k \in 1..Len(jobs_with_indices) |->
                    JobEntries(jobs_with_indices[k], k - 1, d)])]

create_data_model(jobs, num_drivers_per_day, max_hours_per_driver) ==
    LET unique_locations == UniqueLocations(AllLocations(jobs), <<>>)
        jobs_with_indices == JobsWithIndices(jobs, unique_locations)
    IN [time_matrix          |-> compute_time_matrix(unique_locations),
        num_locations        |-> Len(unique_locations),
        depot                |-> 0,
        num_vehicles         |-> num_drivers_per_day,
        jobs                 |-> jobs_with_indices,
        job_pairs            |-> JobPairs(jobs_with_indices),
        jobs_by_day          |-> JobsByDay(jobs_with_indices),
        max_time_per_vehicle |-> max_hours_per_driver * MinutesPerHour]

NoDataModel ==
    [time_matrix |-> <<>>, num_locations |-> 0, depot |-> 0, num_vehicles |-> 0,
     jobs |-> <<>>, job_pairs |-> <<>>,
     jobs_by_day |-> [d \in 0..(NumDays - 1) |-> <<>>],
     max_time_per_vehicle |-> 0]

(***************************************************************************)
(* solve_vrp: the routing model handed to the solver                       *)
(***************************************************************************)
AllowedJobs(dm, d) == dm.jobs_by_day[d]

AllowedLocations(dm, d) ==
    {dm.jobs[j + 1].location_idx : j \in Range(AllowedJobs(dm, d))} \cup {0}

\* PickupAndDelivery restricted to the pairs whose two locations are allowed that day
PickupAndDeliveryAllowedOnly(dm, d) ==
    LET kept == SelectSeq(dm.job_pairs,
                  LAMBDA pair :
                     /\ dm.jobs[pair[1] + 1].location_idx \in AllowedLocations(dm, d)
                     /\ dm.jobs[pair[2] + 1].location_idx \in AllowedLocations(dm, d))
    IN [k \in 1..Len(kept) |->
          [pair           |-> kept[k],
           pickup_index   |-> dm.jobs[kept[k][1] + 1].location_idx,
           delivery_index |-> dm.jobs[kept[k][2] + 1].location_idx]]

\* One entry per job pair: the two routing indices that AddPickupAndDelivery,
\* the VehicleVar equality and the CumulVar inequality are stated on.
\* NodeToIndex is the identity on job locations; for node 0 it is the start
\* of vehicle 0.
PickupAndDelivery(dm, d) ==
    [k \in 1..Len(dm.job_pairs) |->
        [pair           |-> dm.job_pairs[k],
         pickup_index   |-> dm.jobs[dm.job_pairs[k][1] + 1].location_idx,
         delivery_index |-> dm.jobs[dm.job_pairs[k][2] + 1].location_idx]]

RoutingModel(dm, d) ==
    [num_vehicles      |-> dm.num_vehicles,
     slack_max         |-> SlackMax,
     capacity          |-> dm.max_time_per_vehicle,
     pickup_delivery   |-> PickupAndDelivery(dm, d),
     allowed_locations |-> AllowedLocations(dm, d)]

(***************************************************************************)
(* The solver (library code): an assignment is, per vehicle, the sequence  *)
(* of nodes between its start and its end, and the waiting added before    *)
(* every arc.                                                              *)
(***************************************************************************)
NoSolution == [found |-> FALSE, paths |-> <<>>, slack |-> 0]

\* the indices a vehicle passes before its end: its start (node 0), then its path
Walk(path) == <<0>> \o path

time_callback(dm, from_node, to_node) == dm.time_matrix[from_node][to_node]

\* value of the Time dimension's cumul variable at position k of a walk
RECURSIVE CumulAt(_, _, _, _)
CumulAt(dm, walk, k, slack) ==
    IF k = 1 THEN 0
    ELSE CumulAt(dm, walk, k - 1, slack)
         + time_callback(dm, walk[k - 1], walk[k]) + slack

EndCumul(dm, walk, slack) ==
    CumulAt(dm, walk, Len(walk), slack)
    + time_callback(dm, walk[Len(walk)], 0) + slack

Visited(paths) == UNION {Range(paths[v]) : v \in 1..Len(paths)}

\* VehicleVar: the vehicle of a node, -1 for a node no vehicle visits
VehicleVar(paths, node) ==
    IF node = 0 THEN 0
    ELSE IF node \in Visited(paths)
         THEN (CHOOSE v \in 1..Len(paths) : node \in Range(paths[v])) - 1
         ELSE -1

PositionIn(walk, node) == CHOOSE k \in 1..Len(walk) : walk[k] = node

CumulVar(dm, sol, node) ==
    IF node = 0 THEN 0
    ELSE LET walk == Walk(sol.paths[VehicleVar(sol.paths, node) + 1])
         IN CumulAt(dm, walk, PositionIn(walk, node), sol.slack)

\* PairConstraintHolds without the VehicleVar equality
PairConstraintOrderOnly(dm, sol, c) ==
    (VehicleVar(sol.paths, c.pickup_index) # -1 /\ VehicleVar(sol.paths, c.delivery_index) # -1)
       => CumulVar(dm, sol, c.pickup_index) <= CumulVar(dm, sol, c.delivery_index)

PairConstraintHolds(dm, sol, c) ==
    /\ VehicleVar(sol.paths, c.pickup_index) = VehicleVar(sol.paths, c.delivery_index)
    /\ (VehicleVar(sol.paths, c.pickup_index) # -1
          => CumulVar(dm, sol, c.pickup_index) <= CumulVar(dm, sol, c.delivery_index))

\* the constraints of the routing model, as the solver enforces them
Feasible(dm, routing, sol) ==
    /\ sol.slack \in 0..routing.slack_max
    /\ \A v \in 1..Len(sol.paths) :
          EndCumul(dm, Walk(sol.paths[v]), sol.slack) <= routing.capacity
    /\ Visited(sol.paths) \subseteq routing.allowed_locations \ {0}
    /\ \A k \in 1..Len(routing.pickup_delivery) :
          PairConstraintHolds(dm, sol, routing.pickup_delivery[k])

\* the assignment the search arrives at under the search choices `strategy`
VisitOrder(routing, strategy) ==
    LET asc == SortedSeq(routing.allowed_locations \ {0})
        ord == IF strategy.order = "asc" THEN asc ELSE Reverse(asc)
    IN SubSeq(ord, 1, Len(ord) - MinOf(strategy.skip, Len(ord)))

VehicleOfPosition(routing, strategy, k) ==
    IF strategy.spread THEN (k - 1) % routing.num_vehicles
    ELSE routing.num_vehicles - 1

CandidatePaths(routing, strategy) ==
    LET ord == VisitOrder(routing, strategy) IN
    [v \in 1..routing.num_vehicles |->
        LET pos == SelectSeq([k \in 1..Len(ord) |-> k],
                     LAMBDA k : VehicleOfPosition(routing, strategy, k) = v - 1)
        IN [k \in 1..Len(pos) |-> ord[pos[k]]]]

\* routing.SolveWithParameters
SolveWithParameters(dm, routing, strategy, found) ==
    LET sol == [found |-> TRUE, paths |-> CandidatePaths(routing, strategy),
                slack |-> strategy.slack]
    IN IF found /\ Feasible(dm, routing, sol) THEN sol ELSE NoSolution

(***************************************************************************)
(* solve_vrp: extraction of routes and of the unassigned jobs              *)
(***************************************************************************)
\* StopsOfNode without `if node_index != 0`
StopsOfNodeNoDepotSkip(dm, node_index, arrival_time) ==
    LET at == {k \in 1..Len(dm.jobs) : dm.jobs[k].location_idx = node_index} IN
    IF at # {}
    THEN <<[job_id |-> dm.jobs[SetMin(at)].id,
            window |-> <<arrival_time,
                         MinOf(arrival_time + WindowMinutes, dm.max_time_per_vehicle)>>]>>
    ELSE <<>>

\* the stop appended for a visited node: the first job at that location
StopsOfNode(dm, node_index, arrival_time) ==
    LET at == {k \in 1..Len(dm.jobs) : dm.jobs[k].location_idx = node_index} IN
    IF node_index # 0 /\ at # {}
    THEN <<[job_id |-> dm.jobs[SetMin(at)].id,
            window |-> <<arrival_time,
                         MinOf(arrival_time + WindowMinutes, dm.max_time_per_vehicle)>>]>>
    ELSE <<>>

RouteStops(dm, sol, v) ==
    LET walk == Walk(sol.paths[v]) IN
    Flatten([k \in 1..Len(walk) |->
                StopsOfNode(dm, walk[k], CumulAt(dm, walk, k, sol.slack))])

\* route_time: the transit of every arc from the start to the end
RouteTime(dm, walk) ==
    SumSeq([k \in 1..Len(walk) |->
              time_callback(dm, walk[k], IF k < Len(walk) THEN walk[k + 1] ELSE 0)])

ExtractRoutes(dm, sol) ==
    IF sol.found
    THEN Flatten([v \in 1..Len(sol.paths) |->
            LET route == RouteStops(dm, sol, v) IN
            IF route # <<>>
            THEN <<[vehicle_id |-> v - 1,
                    stops      |-> route,
                    total_time |-> RouteTime(dm, Walk(sol.paths[v]))]>>
            ELSE <<>>])
    ELSE <<>>

IsAssigned(routes, job_id) ==
    \E r \in 1..Len(routes) : \E s \in 1..Len(routes[r].stops) :
        routes[r].stops[s].job_id = job_id

\* UnassignedJobs deciding by location: a job counts as assigned when some stop
\* is at its location
UnassignedJobsByLocation(dm, routes, allowed_jobs) ==
    LET stop_locations ==
          {dm.jobs[k].location_idx : k \in {n \in 1..Len(dm.jobs) : IsAssigned(routes, dm.jobs[n].id)}}
    IN Flatten([k \in 1..Len(dm.jobs) |->
          IF dm.jobs[k].location_idx \notin stop_locations /\ (k - 1) \in Range(allowed_jobs)
          THEN <<dm.jobs[k].id>> ELSE <<>>])

UnassignedJobs(dm, routes, allowed_jobs) ==
    Flatten([k \in 1..Len(dm.jobs) |->
        IF ~IsAssigned(routes, dm.jobs[k].id) /\ (k - 1) \in Range(allowed_jobs)
        THEN <<dm.jobs[k].id>> ELSE <<>>])

\* solve_vrp with the unassigned loop inside `if solution:`
solve_vrp_unassigned_if_solved(dm, d, strategy, found) ==
    LET routing  == RoutingModel(dm, d)
        solution == SolveWithParameters(dm, routing, strategy, found)
        routes   == ExtractRoutes(dm, solution)
    IN [routing    |-> routing,
        solution   |-> solution,
        routes     |-> routes,
        unassigned |-> IF solution.found
                       THEN UnassignedJobs(dm, routes, AllowedJobs(dm, d))
                       ELSE <<>>]

\* solve_vrp(data_model, day_index); routing and solution are kept for the record
solve_vrp(dm, d, strategy, found) ==
    LET routing  == RoutingModel(dm, d)
        solution == SolveWithParameters(dm, routing, strategy, found)
        routes   == ExtractRoutes(dm, solution)
    IN [routing    |-> routing,
        solution   |-> solution,
        routes     |-> routes,
        unassigned |-> UnassignedJobs(dm, routes, AllowedJobs(dm, d))]

(***************************************************************************)
(* optimize_routes                                                         *)
(***************************************************************************)
\* MaxDriverHours with sum(...) in place of max(...)
MaxDriverHoursSum(drivers) ==
    IF drivers = <<>> THEN DefaultHours
    ELSE SumSeq([k \in 1..Len(drivers) |-> drivers[k].available_hours])

MaxDriverHours(drivers) ==
    IF drivers = <<>> THEN DefaultHours
    ELSE SetMax({drivers[k].available_hours : k \in 1..Len(drivers)})

DriverIdFor(drivers, i) ==
    IF i < Len(drivers) THEN drivers[i + 1].id
    ELSE "additional-driver-" \o ToString(i - Len(drivers) + 1)

RouteModels(drivers, day_routes, d) ==
    [i \in 1..Len(day_routes) |->
        [driver_id  |-> DriverIdFor(drivers, i - 1),
         day        |-> d + 1,
         stops      |-> day_routes[i].stops,
         total_time |-> day_routes[i].total_time]]

\* DedupOrders without set(...)
DedupOrdersKeepAll(unassigned) == {unassigned}

\* list(set(all_unassigned)): every order the set may be listed in
DedupOrders(unassigned) == Permutations_of(Range(unassigned))

NoResponse == [status |-> 0, routes |-> <<>>, unassigned |-> <<>>]

\* not request.jobs: HTTPException(400) is raised inside the try block, caught by
\* `except Exception`, and HTTPException(500) is raised in its place
RejectEmpty ==
    /\ pc = "start"
    /\ request.jobs = <<>>
    /\ response' = [status |-> HTTP_500_INTERNAL_SERVER_ERROR,
                    routes |-> <<>>, unassigned |-> <<>>]
    /\ pc' = "done"
    /\ UNCHANGED <<request, solver, data_model, day, day_results,
                   all_routes, all_unassigned>>

CreateDataModel ==
    /\ pc = "start"
    /\ request.jobs # <<>>
    /\ data_model' = create_data_model(request.jobs, request.num_drivers_per_day,
                                       MaxDriverHours(request.drivers))
    /\ pc' = "solve"
    /\ UNCHANGED <<request, solver, day, day_results,
                   all_routes, all_unassigned, response>>

\* one iteration of `for day in range(5)`
SolveDay ==
    /\ pc = "solve"
    /\ day < NumDays
    /\ \E found \in BOOLEAN :
         LET res == solve_vrp(data_model, day, solver, found) IN
         /\ day_results' = Append(day_results, res)
         /\ all_routes' = all_routes \o RouteModels(request.drivers, res.routes, day)
         /\ all_unassigned' = all_unassigned \o res.unassigned
    /\ day' = day + 1
    /\ UNCHANGED <<request, solver, pc, data_model, response>>

Respond ==
    /\ pc = "solve"
    /\ day = NumDays
    /\ \E unassigned \in DedupOrders(all_unassigned) :
         response' = [status |-> HTTP_200_OK, routes |-> all_routes,
                      unassigned |-> unassigned]
    /\ pc' = "done"
    /\ UNCHANGED <<request, solver, data_model, day, day_results,
                   all_routes, all_unassigned>>

Next == RejectEmpty \/ CreateDataModel \/ SolveDay \/ Respond

(***************************************************************************)
(* Requests                                                                *)
(***************************************************************************)
JobId(k) == "j" \o ToString(k)

DriverId(k) == "d" \o ToString(k)

MakeJob(k, shape) ==
    [id             |-> JobId(k),
     location       |-> shape.location,
     type           |-> shape.kind.type,
     related_job_id |-> shape.kind.related_job_id,
     preferred_date |-> shape.preferred_date]

DriverLists(hours, max_len) ==
    UNION {{[k \in 1..n |-> [id |-> DriverId(k), available_hours |-> f[k]]] :
              f \in [1..n -> hours]} : n \in 0..max_len}

DateLists(date_strs, max_len) ==
    UNION {[1..n -> date_strs] : n \in 0..max_len}

Delivery == [type |-> "delivery", related_job_id |-> NoneVal]

CollectionFor(id) == [type |-> "collection", related_job_id |-> id]

Strategies(orders, spreads, skips, slacks) ==
    [order : orders, spread : spreads, skip : skips, slack : slacks]

InitWith(shapes, driverLists, vehicles, strategies) ==
    /\ \E n \in 0..MaxJobs : \E f \in [1..n -> shapes] :
         \E drivers \in driverLists : \E num_drivers_per_day \in vehicles :
            request = [jobs |-> [k \in 1..n |-> MakeJob(k, f[k])],
                       drivers |-> drivers,
                       num_drivers_per_day |-> num_drivers_per_day]
    /\ solver \in strategies
    /\ pc = "start"
    /\ data_model = NoDataModel
    /\ day = 0
    /\ day_results = <<>>
    /\ all_routes = <<>>
    /\ all_unassigned = <<>>
    /\ response = NoResponse

Tomorrow == <<2024, 2, 28>>

LeapDay == <<2024, 2, 29>>

LastDayOfHorizon == <<2024, 3, 2>>

FirstDayAfterHorizon == <<2024, 3, 3>>

Yesterday == <<2024, 2, 26>>

InTenDays == <<2024, 3, 8>>

\* "2024-02-30": fromisoformat raises ValueError
NotADate == <<2024, 2, 30>>

\* routing: shared locations, the depot address, pairs, one-day eligibility
RoutingShapes ==
    [location : {"A", "B"}, kind : {Delivery, CollectionFor(JobId(2))},
     preferred_date : {<<>>}]
    \cup [location : {"B"}, kind : {Delivery}, preferred_date : {<<Tomorrow>>}]
    \cup [location : {DEPOT_LOCATION}, kind : {Delivery}, preferred_date : {<<>>}]

Init ==
    InitWith(RoutingShapes,
             {<<[id |-> DriverId(1), available_hours |-> DefaultHours]>>},
             {MaxVehicles},
             Strategies({"asc", "desc"}, BOOLEAN, {0, 1}, {0}))

Spec == Init /\ [][Next]_vars

\* eligibility: every mix of parsable, unparsable, in-range and out-of-range dates
DateShapes ==
    [location : {"A"}, kind : {Delivery},
     preferred_date : DateLists({Today, InTenDays, NotADate}, MaxDates)
                      \cup {<<LeapDay>>, <<LastDayOfHorizon>>,
                            <<FirstDayAfterHorizon>>, <<Yesterday>>}]

InitDates ==
    InitWith(DateShapes, {<<>>}, {1}, Strategies({"asc"}, {FALSE}, {0}, {0}))

NextDataModel == RejectEmpty \/ CreateDataModel

SpecDates == InitDates /\ [][NextDataModel]_vars

\* a job outside the horizon next to jobs inside it, through the whole week
HorizonShapes ==
    [location : {"A", "B"}, kind : {Delivery},
     preferred_date : {<<>>, <<Tomorrow>>, <<InTenDays>>}]

InitHorizon ==
    InitWith(HorizonShapes, {<<>>}, {1}, Strategies({"asc"}, {FALSE}, {0, 1}, {0}))

SpecHorizon == InitHorizon /\ [][Next]_vars

\* time budget: drivers with different hours, waiting between stops
TimeShapes ==
    [location : {"A", "B"}, kind : {Delivery}, preferred_date : {<<>>}]

InitTime ==
    InitWith(TimeShapes,
             DriverLists({1, 2}, MaxDrivers),
             {1, MaxVehicles},
             Strategies({"asc", "desc"}, BOOLEAN, {0, 1}, {0, SlackMax}))

SpecTime == InitTime /\ [][Next]_vars

(***************************************************************************)
(* Properties                                                              *)
(***************************************************************************)
SolvedDays == 0..(Len(day_results) - 1)

DayResult(d) == day_results[d + 1]

StopIds(routes) ==
    UNION {{routes[r].stops[s].job_id : s \in 1..Len(routes[r].stops)} :
             r \in 1..Len(routes)}

EligibleIds(d) ==
    {data_model.jobs[j + 1].id : j \in Range(data_model.jobs_by_day[d])}

Responded == pc = "done" /\ response.status = HTTP_200_OK

\* C1: an optimize request with an empty job list is answered with status 400,
\* before the data model is built or any day is solved, with no routes and no
\* unassigned list.
C1_EmptyJobsRejectedWith400 ==
    (pc = "done" /\ request.jobs = <<>>) =>
        /\ response.status = HTTP_400_BAD_REQUEST
        /\ data_model = NoDataModel
        /\ day_results = <<>>
        /\ response.routes = <<>>
        /\ response.unassigned = <<>>

\* C2: on every solved day, the id of every job in the day's eligibility list is
\* in exactly one of the day's route stops and the day's unassigned list.
C2_EligibleJobInExactlyOneList ==
    \A d \in SolvedDays : \A j \in Range(data_model.jobs_by_day[d]) :
        LET id == data_model.jobs[j + 1].id IN
        (id \in StopIds(DayResult(d).routes)) # (id \in Range(DayResult(d).unassigned))

\* a solved day with a solution on which two eligible jobs share a visited
\* location: one is a stop, the other is unassigned
C2_Witness ==
    \E d \in SolvedDays :
        /\ DayResult(d).solution.found
        /\ \E j1, j2 \in Range(data_model.jobs_by_day[d]) :
              /\ j1 # j2
              /\ data_model.jobs[j1 + 1].location_idx = data_model.jobs[j2 + 1].location_idx
              /\ data_model.jobs[j1 + 1].id \in StopIds(DayResult(d).routes)
              /\ data_model.jobs[j2 + 1].id \in Range(DayResult(d).unassigned)

\* C3: a job whose only preferred date parses but lies outside the 5-day horizon
\* is in no day's eligibility list, is in every day's unassigned list, and is in
\* the unassigned list of the weekly response.
OnlyDateOutsideHorizon(job) ==
    /\ Len(job.preferred_date) = 1
    /\ ParsesAsDate(job.preferred_date[1])
    /\ DayDiff(job.preferred_date[1]) \notin 0..(NumDays - 1)

C3_OutOfHorizonJobIsUnassigned ==
    Responded =>
        \A k \in 1..Len(request.jobs) :
            OnlyDateOutsideHorizon(request.jobs[k]) =>
                /\ \A d \in 0..(NumDays - 1) : (k - 1) \notin Range(data_model.jobs_by_day[d])
                /\ \A d \in SolvedDays : request.jobs[k].id \in Range(DayResult(d).unassigned)
                /\ request.jobs[k].id \in Range(response.unassigned)

\* C4: on every solved day, when both jobs of a job pair are stops of the day's
\* routes, the two stops are in the same route and the collection's window
\* start is at most the related job's window start.
C4_PairSameRouteInOrder ==
    \A d \in SolvedDays : \A p \in 1..Len(data_model.job_pairs) :
        LET routes == DayResult(d).routes
            cid == data_model.jobs[data_model.job_pairs[p][1] + 1].id
            rid == data_model.jobs[data_model.job_pairs[p][2] + 1].id
        IN \A r1, r2 \in 1..Len(routes) :
             \A s1 \in 1..Len(routes[r1].stops) : \A s2 \in 1..Len(routes[r2].stops) :
                (routes[r1].stops[s1].job_id = cid /\ routes[r2].stops[s2].job_id = rid)
                   => /\ r1 = r2
                      /\ routes[r1].stops[s1].window[1] <= routes[r2].stops[s2].window[1]

\* two different jobs form a pair and both are stops on a day with several vehicles
C4_Witness ==
    \E d \in SolvedDays : \E p \in 1..Len(data_model.job_pairs) :
        /\ data_model.job_pairs[p][1] # data_model.job_pairs[p][2]
        /\ data_model.num_vehicles >= 2
        /\ data_model.jobs[data_model.job_pairs[p][1] + 1].id \in StopIds(DayResult(d).routes)
        /\ data_model.jobs[data_model.job_pairs[p][2] + 1].id \in StopIds(DayResult(d).routes)

\* C5: the depot is location index 0 for any job list, and no stop of any route
\* of any day belongs to a job at location index 0, that is, at the depot address.
C5_DepotNeverAStop ==
    /\ LocationIndex(UniqueLocations(AllLocations(request.jobs), <<>>), DEPOT_LOCATION) = 0
    /\ \A d \in SolvedDays : \A k \in 1..Len(data_model.jobs) :
          data_model.jobs[k].id \in StopIds(DayResult(d).routes)
             => /\ data_model.jobs[k].location_idx # 0
                /\ request.jobs[k].location # DEPOT_LOCATION
    /\ \A k \in 1..Len(data_model.jobs) :
          data_model.jobs[k].id \in StopIds(all_routes)
             => request.jobs[k].location # DEPOT_LOCATION

\* a job at the depot address is eligible on a day whose solution has routes
C5_Witness ==
    \E d \in SolvedDays :
        /\ DayResult(d).routes # <<>>
        /\ \E k \in 1..Len(request.jobs) :
              /\ request.jobs[k].location = DEPOT_LOCATION
              /\ (k - 1) \in Range(data_model.jobs_by_day[d])
              /\ request.jobs[k].id \in Range(DayResult(d).unassigned)

\* C6: the total_time of every route of every day is at most 60 times the
\* largest available_hours of the request's drivers (9 hours without drivers).
LargestHours ==
    IF Len(request.drivers) = 0 THEN 9
    ELSE CHOOSE h \in {request.drivers[k].available_hours : k \in 1..Len(request.drivers)} :
            \A k \in 1..Len(request.drivers) : request.drivers[k].available_hours <= h

C6_TotalTimeWithinBudget ==
    /\ \A r \in 1..Len(all_routes) : all_routes[r].total_time <= 60 * LargestHours
    /\ \A d \in SolvedDays : \A r \in 1..Len(DayResult(d).routes) :
          DayResult(d).routes[r].total_time <= 60 * LargestHours

\* drivers with different hours, and a route that uses the whole budget
C6_Witness ==
    /\ Len(request.drivers) >= 2
    /\ request.drivers[1].available_hours # request.drivers[2].available_hours
    /\ \E r \in 1..Len(all_routes) :
          /\ all_routes[r].total_time > 60
          /\ Len(all_routes[r].stops) >= 2

\* C7: the weekly response's unassigned list holds exactly the ids that are in
\* the unassigned list of at least one day, each once, also the id of a job that
\* is a stop on another day.
C7_WeeklyUnassignedIsUnion ==
    Responded =>
        /\ Range(response.unassigned) =
              UNION {Range(DayResult(d).unassigned) : d \in 0..(NumDays - 1)}
        /\ NoDuplicates(response.unassigned)

\* a job that is a stop on one day and unassigned on two other days is listed
C7_Witness ==
    /\ Responded
    /\ \E id \in Range(response.unassigned) : \E d1, d2, d3 \in 0..(NumDays - 1) :
          /\ d2 # d3
          /\ id \in StopIds(DayResult(d1).routes)
          /\ id \in Range(DayResult(d2).unassigned)
          /\ id \in Range(DayResult(d3).unassigned)

\* C8: a day without a solution has no routes and every job of its eligibility
\* list unassigned; it is no error: every day's result is what solve_vrp gives
\* for that day alone, all five days are solved and the response is a 200.
RoutesOfDay(routes, n) == SelectSeq(routes, LAMBDA route : route.day = n)

C8_NoSolutionIsNotAnError ==
    /\ \A d \in SolvedDays :
          ~DayResult(d).solution.found =>
              /\ DayResult(d).routes = <<>>
              /\ Range(DayResult(d).unassigned) = EligibleIds(d)
    /\ \A d \in SolvedDays :
          /\ DayResult(d) = solve_vrp(data_model, d, solver, DayResult(d).solution.found)
          /\ RoutesOfDay(all_routes, d + 1) = RouteModels(request.drivers, DayResult(d).routes, d)
    /\ (pc = "done" /\ request.jobs # <<>>) =>
          /\ Len(day_results) = NumDays
          /\ response.status = HTTP_200_OK
          /\ response.routes = all_routes

\* the response is sent after a day without solution, whose eligible jobs are
\* unassigned, was followed by a day with routes
C8_Witness ==
    /\ Responded
    /\ \E d1, d2 \in 0..(NumDays - 1) :
          /\ d1 < d2
          /\ ~DayResult(d1).solution.found
          /\ DayResult(d1).unassigned # <<>>
          /\ DayResult(d2).solution.found
          /\ DayResult(d2).routes # <<>>

\* C9: job entry i is in the eligibility list of day d iff the job has no
\* preferred dates, or one of its date strings fails to parse, or one of them
\* parses to the date d days after today.
C9_EligibilityRule ==
    pc # "start" =>
        \A k \in 1..Len(request.jobs) : \A d \in 0..(NumDays - 1) :
            LET dates == request.jobs[k].preferred_date IN
            ((k - 1) \in Range(data_model.jobs_by_day[d]))
               <=> \/ Len(dates) = 0
                   \/ \E n \in 1..Len(dates) : ~ParsesAsDate(dates[n])
                   \/ \E n \in 1..Len(dates) :
                         /\ ParsesAsDate(dates[n])
                         /\ ToOrdinal(dates[n]) = ToOrdinal(Today) + d

\* an unparsable date next to today's date and a date outside the horizon: the
\* entry is twice in day 0's list, once in day 1's; another job is in no list
C9_Witness ==
    /\ pc # "start"
    /\ \E k \in 1..Len(request.jobs) :
          /\ request.jobs[k].preferred_date = <<Today, NotADate>>
          /\ Len(SelectSeq(data_model.jobs_by_day[0], LAMBDA i : i = k - 1)) = 2
          /\ Len(SelectSeq(data_model.jobs_by_day[1], LAMBDA i : i = k - 1)) = 1
    /\ \E k \in 1..Len(request.jobs) :
          /\ request.jobs[k].preferred_date = <<FirstDayAfterHorizon>>
          /\ \A d \in 0..(NumDays - 1) : (k - 1) \notin Range(data_model.jobs_by_day[d])

\* C10 as claimed: on every solved day, every pickup-and-delivery constraint
\* handed to the solver is for a pair whose two locations are allowed that day.
C10_ConstraintsOnlyForAllowedPairs ==
    \A d \in SolvedDays :
        \A n \in 1..Len(DayResult(d).routing.pickup_delivery) :
            LET c == DayResult(d).routing.pickup_delivery[n] IN
            /\ c.pickup_index \in DayResult(d).routing.allowed_locations
            /\ c.delivery_index \in DayResult(d).routing.allowed_locations

\* C10 amended: on every solved day, the solver is handed one
\* pickup-and-delivery constraint for every job pair of the data model, on the
\* pair's two location indices, whether or not they are allowed that day.
C10_ConstraintsForEveryPair ==
    \A d \in SolvedDays :
        LET passed == DayResult(d).routing.pickup_delivery IN
        /\ Len(passed) = Len(data_model.job_pairs)
        /\ \A n \in 1..Len(passed) :
              /\ passed[n].pair = data_model.job_pairs[n]
              /\ passed[n].pickup_index =
                    data_model.jobs[data_model.job_pairs[n][1] + 1].location_idx
              /\ passed[n].delivery_index =
                    data_model.jobs[data_model.job_pairs[n][2] + 1].location_idx

\* a day was solved with a constraint for a pair whose related job is not
\* eligible that day and whose location is not allowed
C10_Witness ==
    \E d \in SolvedDays :
        \E n \in 1..Len(DayResult(d).routing.pickup_delivery) :
            LET c == DayResult(d).routing.pickup_delivery[n] IN
            /\ c.pair[2] \notin Range(data_model.jobs_by_day[d])
            /\ c.delivery_index \notin DayResult(d).routing.allowed_locations
            /\ c.pickup_index \in DayResult(d).routing.allowed_locations

\* C11: on every solved day, the day's unassigned list holds exactly the ids of
\* the jobs of the day's eligibility list whose location index is visited by no
\* vehicle that day; an eligible job at a visited location is never in it, also
\* when two jobs share the location index.
C11_UnassignedIffLocationNotVisited ==
    \A d \in SolvedDays :
        Range(DayResult(d).unassigned) =
            {data_model.jobs[j + 1].id :
                j \in {i \in Range(data_model.jobs_by_day[d]) :
                          data_model.jobs[i + 1].location_idx
                              \notin Visited(DayResult(d).solution.paths)}}

\* C12: on every solved day, every job id that is a stop of one of the day's
\* routes is the id of a job entry of the day's eligibility list, also when an
\* eligible and a non-eligible job share a location index.
C12_StopsAreEligibleThatDay ==
    \A d \in SolvedDays : StopIds(DayResult(d).routes) \subseteq EligibleIds(d)

====
